---- MODULE Spec2Model ----
(***************************************************************************)
(* A model of the ticketflow application: the TicketFlow approval flow     *)
(* (flows.py), the Start and Approval views and their helpers (views.py),  *)
(* the dynamic form builder (forms.py) and the admin export actions        *)
(* (admin.py), over the rows of the models of models.py.                   *)
(*                                                                         *)
(* Python values are modelled as strings.  A str is itself; None, True,    *)
(* False and an int are distinct tagged strings, so that str() is a real   *)
(* conversion (Str below) and "" is not None.                              *)
(***************************************************************************)
EXTENDS Integers, Sequences, FiniteSets, TLC

VARIABLES
    pc,            \* the active node of the flow for the process
    form,          \* TicketProcess.form (a Form id)
    entry,         \* TicketProcess.entry (a FormEntry id, NoEntry when null)
    next_entry_id, \* the next auto id of the FormEntry table
    entries,       \* the FormEntry table: id -> row
    values,        \* the FormEntryValue table: <<entry id, field id>> -> row
    ticket_data,   \* TicketProcess.ticket_data: label -> text
    decision,      \* TicketProcess.<role>_decision
    approved_by,   \* TicketProcess.approved_by_<role>
    comment,       \* TicketProcess.<role>_comment
    hidden,        \* the FormField rows whose hidden flag is set
    admin_edits,   \* how many changes administrators have made
    request,       \* the request being answered; cleaned_data and files are
                   \* those of a Start submission
    response       \* what the handler answered

vars == <<pc, form, entry, next_entry_id, entries, values, ticket_data,
          decision, approved_by, comment, hidden, admin_edits, request,
          response>>

-----------------------------------------------------------------------------
(* Bounds *)

MaxExportEntries == 2  \* FormEntry rows in the table the export reads
MaxAdminEdits == 1     \* changes made in the admin site while the process runs
MaxInitialKeys == 1    \* keys of the initial_map given to add_fields_to_form

-----------------------------------------------------------------------------
(* Python values *)

NoneV == "<None>"
PyTrue == "<True>"
PyFalse == "<False>"
PyInt7 == "<int 7>"

\* str(val)
Str(val) ==
    CASE val = PyTrue -> "True"
      [] val = PyFalse -> "False"
      [] val = PyInt7 -> "7"
      [] val = NoneV -> "None"
      [] OTHER -> val

\* bool(val) of a str or None
Truthy(val) == val # NoneV /\ val # "" /\ val # PyFalse

\* a or b
Or(a, b) == IF Truthy(a) THEN a ELSE b

\* d.get(k, default)
DictGet(d, k, default) == IF k \in DOMAIN d THEN d[k] ELSE default

EmptyDict == [k \in {} |-> ""]

\* s.strip() of the pieces used in notify_emails
Strip(s) == IF s \in {" ", "  "} THEN "" ELSE s

-----------------------------------------------------------------------------
(* The rows the administrators have defined *)

ROLE_USER == "user"
ROLE_DEV == "dev"
ROLE_BA == "ba"
ROLE_PM == "pm"
ROLE_CHOICES == {ROLE_USER, ROLE_DEV, ROLE_BA, ROLE_PM}

TEXT == "text"
TEXTAREA == "textarea"
FILE == "file"
NUMBER == "number"
CHECKBOX == "checkbox"

\* Form rows; notify_emails is the text split at its commas
Form ==
    [i \in {1, 2} |->
        IF i = 1
        THEN [name |-> "Risk", notify_emails |-> <<"ops@example.org", " ">>]
        ELSE [name |-> "Audit", notify_emails |-> <<>>]]

FormIds == DOMAIN Form

FF(id, f, label, ftype, role, hid, default, order) ==
    [id |-> id, form |-> f, label |-> label, field_type |-> ftype,
     role |-> role, hidden |-> hid, default_value |-> default,
     order |-> order]

\* FormField rows, indexed by id
FormField ==
    << FF(1, 1, "Summary", TEXT, ROLE_USER, FALSE, "", 2),
       FF(2, 1, "Description", TEXTAREA, ROLE_USER, FALSE, "", 1),
       FF(3, 1, "Confirmed", CHECKBOX, ROLE_DEV, FALSE, "1", 3),
       FF(4, 1, "Internal", TEXT, ROLE_DEV, TRUE, "d", 3),
       FF(5, 2, "Title", TEXT, ROLE_USER, FALSE, "t", 0),
       FF(6, 2, "Scan", FILE, ROLE_USER, FALSE, "", 0),
       FF(7, 2, "Score", NUMBER, ROLE_PM, FALSE, "", 1) >>

FieldIds == DOMAIN FormField

\* The rows created with hidden=True
InitiallyHidden == {id \in FieldIds : FormField[id].hidden}

\* FormField.Meta.ordering = ["order", "id"]
OrderedBefore(a, b) ==
    \/ FormField[a].order < FormField[b].order
    \/ FormField[a].order = FormField[b].order /\ a < b

RECURSIVE SortFields(_)
SortFields(S) ==
    IF S = {} THEN <<>>
    ELSE LET m == CHOOSE x \in S : \A y \in S \ {x} : OrderedBefore(x, y)
         IN <<m>> \o SortFields(S \ {m})

\* FormField.objects.all(): the ids of all the rows, in Meta order
FormField_objects == SortFields(FieldIds)

\* form_obj.fields.all(): the ids of the form's fields, in Meta order
fields_all(form_obj) ==
    SelectSeq(FormField_objects, LAMBDA id : FormField[id].form = form_obj)

\* form_obj.fields.filter(role=role)
fields_filter(form_obj, role) ==
    SelectSeq(FormField_objects,
              LAMBDA id : FormField[id].form = form_obj
                          /\ FormField[id].role = role)

Range(s) == {s[i] : i \in DOMAIN s}

\* str(ff.id)
Key(id) == ToString(id)

-----------------------------------------------------------------------------
(* FormEntryValue rows *)

\* v.value_file.name of an upload stored under upload_to="form_uploads/"
FileName(f) == "form_uploads/" \o f

\* v.value_file.url
FileUrl(f) == "/media/form_uploads/" \o f

\* TicketProcess.entry is null
NoEntry == 0

NewValueRow == [value_text |-> "", value_file |-> NoneV]

\* v.value_text or (v.value_file.name if v.value_file else "")
DisplayValue(v) ==
    Or(v.value_text, IF Truthy(v.value_file) THEN FileName(v.value_file) ELSE "")

-----------------------------------------------------------------------------
(* forms.py *)

\* init in ("True", True)
CheckboxInitial_strict(init) ==
    IF init \in {"True", PyTrue} THEN PyTrue ELSE PyFalse

\* init in ("True", "true", True, "1", 1)
CheckboxInitial(init) ==
    IF init \in {"True", "true", PyTrue, "1"} THEN PyTrue ELSE PyFalse

\* The fields add_fields_to_form puts into django_form.fields: key -> field
\* (initial_map=None and exclude_labels=None are passed as the empty dict and
\* the empty set, which is what the function replaces them by.)
add_fields_to_form(form_obj, role_code_arg, role, initial_map, exclude_labels) ==
    LET role_code == IF role_code_arg = NoneV THEN role ELSE role_code_arg
        qs == IF Truthy(role_code)
              THEN Range(fields_filter(form_obj, role_code))
              ELSE Range(fields_all(form_obj))
        kept == {id \in qs : ~(id \in hidden
                               \/ FormField[id].label \in exclude_labels)}
        init(id) == DictGet(initial_map, Key(id),
                            Or(FormField[id].default_value, NoneV))
    IN [key \in {Key(id) : id \in kept} |->
         LET id == CHOOSE i \in kept : Key(i) = key
         IN [id |-> id,
             label |-> FormField[id].label,
             field_type |-> FormField[id].field_type,
             initial |-> IF FormField[id].field_type = CHECKBOX
                         THEN CheckboxInitial(init(id))
                         ELSE init(id)]]

-----------------------------------------------------------------------------
(* views.py helpers *)

\* {str(field_id) -> text or file name} of the entry's value rows
initial_map_for(vals, e) ==
    IF e = NoEntry THEN EmptyDict
    ELSE [key \in {Key(p[2]) : p \in {q \in DOMAIN vals : q[1] = e}} |->
            LET id == CHOOSE i \in FieldIds : Key(i) = key
            IN DisplayValue(vals[<<e, id>>])]

\* _update_entry_values_for_role without the role filter on the fields
_update_entry_values_any_role(vals, e, form_obj, cleaned_data, files, role) ==
    LET targets == Range(fields_all(form_obj))
        file_obj(id) == DictGet(files, Key(id), NoneV)
        written == {id \in targets :
                       FormField[id].field_type = FILE => Truthy(file_obj(id))}
        val(id) == DictGet(cleaned_data, Key(id), "")
    IN [p \in DOMAIN vals \cup {<<e, id>> : id \in written} |->
          IF p[1] = e /\ p[2] \in written
          THEN IF FormField[p[2]].field_type = FILE
               THEN [value_text |-> "", value_file |-> file_obj(p[2])]
               ELSE [value_text |-> IF val(p[2]) # NoneV THEN Str(val(p[2])) ELSE "",
                     value_file |-> NoneV]
          ELSE vals[p]]

\* The value rows after _update_entry_values_for_role (files=None is passed
\* as the empty dict, which "files or {}" replaces it by)
_update_entry_values_for_role(vals, e, form_obj, cleaned_data, files, role) ==
    LET targets == Range(fields_filter(form_obj, role))
        file_obj(id) == DictGet(files, Key(id), NoneV)
        written == {id \in targets :
                       FormField[id].field_type = FILE => Truthy(file_obj(id))}
        val(id) == DictGet(cleaned_data, Key(id), "")
    IN [p \in DOMAIN vals \cup {<<e, id>> : id \in written} |->
          IF p[1] = e /\ p[2] \in written
          THEN IF FormField[p[2]].field_type = FILE
               THEN [value_text |-> "", value_file |-> file_obj(p[2])]
               ELSE [value_text |-> IF val(p[2]) # NoneV THEN Str(val(p[2])) ELSE "",
                     value_file |-> NoneV]
          ELSE vals[p]]

\* snap[ff.label] = ... for ff in entry.form.fields.all(), later labels win
RECURSIVE SnapshotFold(_, _, _, _)
SnapshotFold(vals, e, ffs, snap) ==
    IF ffs = <<>> THEN snap
    ELSE LET ff == Head(ffs)
             text == IF <<e, ff>> \in DOMAIN vals
                     THEN DisplayValue(vals[<<e, ff>>])
                     ELSE ""
         IN SnapshotFold(vals, e, Tail(ffs),
                         (FormField[ff].label :> text) @@ snap)

_snapshot_from_entry(vals, ents, e) ==
    SnapshotFold(vals, e, fields_all(ents[e].form), EmptyDict)

\* The addresses send_submission_emails writes to
notify_list(form_obj) ==
    SelectSeq([i \in DOMAIN Form[form_obj].notify_emails |->
                  Strip(Form[form_obj].notify_emails[i])],
              LAMBDA a : Truthy(a))

\* send_submission_emails: "skipped" without addresses, else the outcome of
\* building and sending the message
send_submission_emails(form_obj, raises) ==
    IF notify_list(form_obj) = <<>> THEN "skipped"
    ELSE IF raises THEN "raised" ELSE "sent"

-----------------------------------------------------------------------------
(* What a browser can submit *)

Users == {"alice"}
Comments == {"ok"}
PostedDecisions == {"approved", "rejected", "maybe", NoneV}
Times == {[minute |-> "2024-05-01 10:00", second |-> 5]}

\* entry.submitted_at.strftime("%Y-%m-%d %H:%M")
Strftime(t) == t.minute

\* The cleaned values a valid form can hold for a field of a type
CleanedValues(ftype) ==
    CASE ftype \in {TEXT, TEXTAREA} -> {"", "a"}
      [] ftype = CHECKBOX -> {PyTrue, PyFalse}
      [] ftype = FILE -> {NoneV, "x.pdf"}
      [] ftype = NUMBER -> {NoneV, PyInt7}

\* The cleaned_data of the dynamic fields of a built form
PostedData(formfields) ==
    {cd \in [DOMAIN formfields -> UNION {CleanedValues(t) : t \in
                                           {TEXT, CHECKBOX, FILE, NUMBER}}] :
        \A k \in DOMAIN formfields :
            cd[k] \in CleanedValues(formfields[k].field_type)}

\* request.FILES: the uploads among the posted values
FilesOf(formfields, cd) ==
    [k \in {j \in DOMAIN formfields : formfields[j].field_type = FILE
                                      /\ cd[j] # NoneV} |-> cd[k]]

NoRequest ==
    [op |-> "none", role |-> NoneV, decision |-> NoneV, user |-> NoneV,
     cleaned_data |-> EmptyDict, files |-> EmptyDict,
     has_form |-> FALSE, has_request |-> FALSE]

NoResponse == [status |-> "none", email |-> "none", body |-> <<>>]

-----------------------------------------------------------------------------
(* flows.py: the nodes of TicketFlow *)

ApprovalNode(role) ==
    CASE role = ROLE_USER -> "user_approval"
      [] role = ROLE_DEV -> "dev_approval"
      [] role = ROLE_BA -> "ba_approval"
      [] role = ROLE_PM -> "pm_approval"

\* flow.If(... user_decision == "approved").Then(dev_approval).Else(start)
user_decision(d) ==
    IF d[ROLE_USER] = "approved" THEN "dev_approval" ELSE "start"

\* dev_decision with its Then branch wired past the ba stage
dev_decision_skips_ba(d) ==
    IF d[ROLE_DEV] = "approved" THEN "pm_approval" ELSE "user_approval"

\* flow.If(... dev_decision == "approved").Then(ba_approval).Else(user_approval)
dev_decision(d) ==
    IF d[ROLE_DEV] = "approved" THEN "ba_approval" ELSE "user_approval"

\* ba_decision with its Then branch wired back to the dev stage
ba_decision_loops(d) ==
    IF d[ROLE_BA] = "approved" THEN "dev_approval" ELSE "dev_approval"

\* flow.If(... ba_decision == "approved").Then(pm_approval).Else(dev_approval)
ba_decision(d) ==
    IF d[ROLE_BA] = "approved" THEN "pm_approval" ELSE "dev_approval"

\* pm_decision with its Else branch wired to End
pm_decision_rejection_ends(d) ==
    IF d[ROLE_PM] = "approved" THEN "end" ELSE "end"

\* flow.If(... pm_decision == "approved").Then(end).Else(ba_approval)
pm_decision(d) ==
    IF d[ROLE_PM] = "approved" THEN "end" ELSE "ba_approval"

\* <role>_approval.Next(this.<role>_decision)
approval_next(role, d) ==
    CASE role = ROLE_USER -> user_decision(d)
      [] role = ROLE_DEV -> dev_decision(d)
      [] role = ROLE_BA -> ba_decision(d)
      [] role = ROLE_PM -> pm_decision(d)

\* save_user_fields.Next(this.user_approval)
save_user_fields_next == "user_approval"

\* The send without the try/except around it
email_failure_propagates(outcome) == outcome # "raised"

\* try: send_submission_emails(...) except Exception: pass
\* TRUE when the step goes on after the send with this outcome
email_failure_swallowed(outcome) == TRUE

\* _save_user_start_data(activation): the process and the tables after it.
\* has_form and has_request say whether the activation handed to the
\* function carries a valid bound form and a request.
_save_user_start_data(has_form, has_request, user, now, cleaned_data, files_posted, raises) ==
    LET create == entry = NoEntry
        e == IF create THEN next_entry_id ELSE entry
        submitted_by == IF has_request THEN user ELSE NoneV
        ents == IF create
                THEN (e :> [form |-> form, submitted_by |-> submitted_by,
                            submitted_at |-> now]) @@ entries
                ELSE entries
        files == IF has_request THEN files_posted ELSE EmptyDict
        vals == IF has_form
                THEN _update_entry_values_for_role(values, e, form,
                                                   cleaned_data, files, ROLE_USER)
                ELSE values
        email == send_submission_emails(form, raises)
    IN [entry |-> e,
        next_entry_id |-> IF create THEN next_entry_id + 1 ELSE next_entry_id,
        entries |-> ents,
        values |-> vals,
        ticket_data |-> _snapshot_from_entry(vals, ents, e),
        email |-> email,
        completed |-> email_failure_swallowed(email)]

\* A validation that only asks for some decision
decision_present(dec) == dec # NoneV

\* ApprovalView.form_valid: decision in ("approved", "rejected")
decision_valid(dec) == dec \in {"approved", "rejected"}

\* DynamicStartView.get_form_class: the dynamic fields of the StartForm
StartForm(form_obj) ==
    add_fields_to_form(form_obj, NoneV, ROLE_USER, EmptyDict, {})

\* ApprovalView.get_form_class: the dynamic fields of the approval form
ApprovalFormFields(role) ==
    add_fields_to_form(form, NoneV, role, initial_map_for(values, entry),
                       {"Description"})

-----------------------------------------------------------------------------
(* The flow's steps *)

Init ==
    /\ pc = "start"
    /\ form \in FormIds
    /\ entry = NoEntry
    /\ next_entry_id = 1
    /\ entries = [e \in {} |-> 0]
    /\ values = [p \in {} |-> NewValueRow]
    /\ ticket_data = EmptyDict
    /\ decision = [r \in ROLE_CHOICES |-> ""]
    /\ approved_by = [r \in ROLE_CHOICES |-> ""]
    /\ comment = [r \in ROLE_CHOICES |-> ""]
    /\ hidden = InitiallyHidden
    /\ admin_edits = 0
    /\ request = NoRequest
    /\ response = NoResponse

\* The Start task is submitted: DynamicStartView saves the process, then the
\* save_user_fields node runs and the flow moves on
\* (after a rejection at the user stage the Start node is active again for
\* the same process and form)
Start ==
    /\ pc = "start"
    /\ \E shown \in {StartForm(form)} :
       \E user \in Users, now \in Times, cd \in PostedData(shown),
          has_form \in BOOLEAN, has_request \in BOOLEAN, raises \in BOOLEAN :
       \E files \in {FilesOf(shown, cd)} :
         /\ request' = [op |-> "start", role |-> ROLE_USER,
                        decision |-> NoneV, user |-> user,
                        cleaned_data |-> cd, files |-> files,
                        has_form |-> has_form, has_request |-> has_request]
         /\ \E r \in {_save_user_start_data(has_form, has_request, user, now,
                                            cd, files, raises)} :
              IF r.completed
              THEN /\ entry' = r.entry
                   /\ next_entry_id' = r.next_entry_id
                   /\ entries' = r.entries
                   /\ values' = r.values
                   /\ ticket_data' = r.ticket_data
                   /\ pc' = save_user_fields_next
                   /\ response' = [status |-> "redirect", email |-> r.email,
                                   body |-> <<>>]
              ELSE \* an exception leaves the step: the request fails and
                   \* its transaction is rolled back
                   /\ response' = [status |-> "error", email |-> r.email,
                                   body |-> <<>>]
                   /\ UNCHANGED <<pc, entry, next_entry_id, entries,
                                  values, ticket_data>>
    /\ UNCHANGED <<form, decision, approved_by, comment, hidden, admin_edits>>

\* ApprovalView.form_valid for the view of a role, refusing the submission:
\* the posted decision is missing or is not one of the two buttons' values
ApprovalRefused(role) ==
    /\ pc = ApprovalNode(role)
    /\ \E dec \in PostedDecisions, user \in Users :
         /\ ~decision_valid(dec)
         /\ request' = [NoRequest EXCEPT !.op = "approval", !.role = role,
                                         !.decision = dec, !.user = user]
         /\ response' = [status |-> "form_invalid", email |-> "none",
                         body |-> <<"Please click Approve or Reject.">>]
    /\ UNCHANGED <<pc, form, entry, next_entry_id, entries, values,
                   ticket_data, decision, approved_by, comment, hidden,
                   admin_edits>>

\* ApprovalView.form_valid for the view of a role, accepting the submission,
\* and the If node after it
ApprovalAccepted(role) ==
    /\ pc = ApprovalNode(role)
    /\ \E dec \in PostedDecisions, user \in Users, cmt \in Comments,
          now \in Times :
       \E d \in {[decision EXCEPT ![role] = dec]} :
         /\ decision_valid(dec)
         /\ request' = [NoRequest EXCEPT !.op = "approval", !.role = role,
                                         !.decision = dec, !.user = user]
         /\ decision' = d
         /\ approved_by' = [approved_by EXCEPT ![role] = user]
         /\ comment' = [comment EXCEPT ![role] = cmt]
         /\ pc' = approval_next(role, d)
         /\ response' = [status |-> "redirect", email |-> "none",
                         body |-> <<>>]
         /\ \E shown \in {ApprovalFormFields(role)} :
            \E cd \in PostedData(shown) :
            \E files \in {FilesOf(shown, cd)} :
            \E e \in {IF entry = NoEntry THEN next_entry_id ELSE entry} :
            \E ents \in {IF entry = NoEntry
                         THEN (e :> [form |-> form, submitted_by |-> user,
                                     submitted_at |-> now]) @@ entries
                         ELSE entries} :
            \E vals \in {_update_entry_values_for_role(values, e, form, cd,
                                                       files, role)} :
              /\ entry' = e
              /\ next_entry_id' = IF entry = NoEntry THEN next_entry_id + 1
                                  ELSE next_entry_id
              /\ entries' = ents
              /\ values' = vals
              /\ ticket_data' = _snapshot_from_entry(vals, ents, e)
    /\ UNCHANGED <<form, hidden, admin_edits>>

Approval(role) == ApprovalRefused(role) \/ ApprovalAccepted(role)

\* An administrator deletes the process's entry in the admin site: its value
\* rows go with it (CASCADE) and TicketProcess.entry becomes null (SET_NULL)
AdminDeleteEntry ==
    /\ entry # NoEntry
    /\ admin_edits < MaxAdminEdits
    /\ admin_edits' = admin_edits + 1
    /\ entries' = [e \in DOMAIN entries \ {entry} |-> entries[e]]
    /\ values' = [p \in {q \in DOMAIN values : q[1] # entry} |-> values[p]]
    /\ entry' = NoEntry
    /\ request' = [NoRequest EXCEPT !.op = "delete"]
    /\ response' = NoResponse
    /\ UNCHANGED <<pc, form, next_entry_id, ticket_data, decision,
                   approved_by, comment, hidden>>

\* An administrator changes the hidden flag of a field of the process's form
\* in the inline of FormAdmin
AdminSetHidden ==
    /\ admin_edits < MaxAdminEdits
    /\ \E id \in {i \in FieldIds : FormField[i].form = form} :
         hidden' = IF id \in hidden THEN hidden \ {id} ELSE hidden \cup {id}
    /\ admin_edits' = admin_edits + 1
    /\ request' = [NoRequest EXCEPT !.op = "set_hidden"]
    /\ response' = NoResponse
    /\ UNCHANGED <<pc, form, entry, next_entry_id, entries, values,
                   ticket_data, decision, approved_by, comment>>

Next ==
    \/ Start
    \/ \E role \in ROLE_CHOICES : Approval(role)
    \/ AdminDeleteEntry
    \/ AdminSetHidden

Spec == Init /\ [][Next]_vars

-----------------------------------------------------------------------------
(* Properties of the flow *)

\* This step is a successful approval submission at the stage of role r
ApprovalDone(r) ==
    /\ pc = ApprovalNode(r)
    /\ request'.op = "approval"
    /\ request'.role = r
    /\ response'.status = "redirect"

\* The changes of the active node that the flow's routing allows
ForwardEdges ==
    {<<"start", "user_approval">>, <<"user_approval", "dev_approval">>,
     <<"dev_approval", "ba_approval">>, <<"ba_approval", "pm_approval">>,
     <<"pm_approval", "end">>}

\* C1: approval routing is strictly sequential. An approved decision at user
\* makes dev_approval the active task, at dev ba_approval, at ba pm_approval,
\* and at pm the process reaches End; End is entered only by an approved
\* decision at pm, and no step moves the flow forward past a stage.
C1_SequentialApproval ==
    [][ /\ \A r \in ROLE_CHOICES :
              (ApprovalDone(r) /\ request'.decision = "approved") =>
                  pc' = CASE r = ROLE_USER -> "dev_approval"
                          [] r = ROLE_DEV -> "ba_approval"
                          [] r = ROLE_BA -> "pm_approval"
                          [] r = ROLE_PM -> "end"
        /\ (pc' = "end" /\ pc # "end") =>
              (ApprovalDone(ROLE_PM) /\ request'.decision = "approved")
        /\ (pc' # pc /\ request'.decision # "rejected") =>
              <<pc, pc'>> \in ForwardEdges
      ]_vars

\* C1 witness: the process has reached End by an approved decision at pm,
\* with every stage approved
C1_Witness ==
    /\ pc = "end"
    /\ request.role = ROLE_PM
    /\ \A r \in ROLE_CHOICES : decision[r] = "approved"

\* C2: a rejected decision loops the process back to the prior stage and
\* never ends it: pm -> ba_approval, ba -> dev_approval, dev -> user_approval,
\* user -> the Start step.
C2_RejectionLoopsBack ==
    [][ \A r \in ROLE_CHOICES :
            (ApprovalDone(r) /\ request'.decision = "rejected") =>
                /\ pc' = CASE r = ROLE_USER -> "start"
                           [] r = ROLE_DEV -> "user_approval"
                           [] r = ROLE_BA -> "dev_approval"
                           [] r = ROLE_PM -> "ba_approval"
                /\ pc' # "end"
      ]_vars

\* C2 witness: pm has rejected and the ba approval is active again
C2_Witness ==
    /\ pc = "ba_approval"
    /\ request.op = "approval"
    /\ request.role = ROLE_PM
    /\ request.decision = "rejected"
    /\ response.status = "redirect"

\* C2 witness: the user stage has rejected and the flow is back at Start
C2_WitnessStart ==
    /\ pc = "start"
    /\ request.role = ROLE_USER
    /\ request.decision = "rejected"

\* The value row of a field of the process's entry shows this text
Shows(vals, e, id, text) ==
    /\ <<e, id>> \in DOMAIN vals
    /\ DisplayValue(vals[<<e, id>>]) = text

\* What a submitted value is stored and shown as
SubmittedText(id, val) ==
    IF FormField[id].field_type = FILE THEN FileName(val) ELSE Str(val)

\* C3: after the Start step is submitted with values for the user-role
\* fields, when the user approval task becomes active the process has an
\* entry, the entry holds the submitted value of every user-role field, and
\* ticket_data shows those values.
C3_StartValuesPersisted ==
    [][ (pc = "start" /\ pc' = "user_approval") =>
          /\ entry' # NoEntry
          /\ \A k \in DOMAIN request'.cleaned_data :
               LET id == CHOOSE i \in FieldIds : Key(i) = k
                   val == request'.cleaned_data[k]
               IN val # NoneV =>
                    /\ Shows(values', entry', id, SubmittedText(id, val))
                    /\ DictGet(ticket_data', FormField[id].label, NoneV)
                           = SubmittedText(id, val)
      ]_vars

\* C4: the submission email is best-effort. When send_submission_emails
\* raises during save_user_fields the failure is swallowed: the entry and the
\* ticket_data snapshot are saved and the user approval task becomes active.
C4_EmailBestEffort ==
    [][ (pc = "start" /\ request'.op = "start" /\ response'.email = "raised") =>
          /\ pc' = "user_approval"
          /\ response'.status = "redirect"
          /\ entry' # NoEntry
          /\ entry' \in DOMAIN entries'
          /\ DOMAIN ticket_data' =
                {FormField[id].label : id \in Range(fields_all(form))}
          /\ request'.has_form =>
                \A k \in DOMAIN request'.cleaned_data :
                    FormField[CHOOSE i \in FieldIds : Key(i) = k].field_type # FILE
                    => Shows(values', entry',
                             CHOOSE i \in FieldIds : Key(i) = k,
                             Str(request'.cleaned_data[k]))
      ]_vars

\* C4 witness: the send raised, and the user approval is active with the
\* entry and the snapshot saved
C4_Witness ==
    /\ pc = "user_approval"
    /\ request.op = "start"
    /\ response.email = "raised"
    /\ entry # NoEntry
    /\ \E l \in DOMAIN ticket_data : ticket_data[l] = "a"

\* C5: an approval submission whose decision is missing or is neither
\* 'approved' nor 'rejected' is refused with a form error and changes nothing
\* persisted: no entry, no value row, no decision, approver or ticket_data
\* changes, and the same approval task stays active.
C5_InvalidDecisionRefused ==
    [][ (request'.op = "approval"
         /\ request'.decision \notin {"approved", "rejected"}) =>
          /\ response'.status = "form_invalid"
          /\ response'.body # <<>>
          /\ UNCHANGED <<pc, form, entry, next_entry_id, entries, values,
                         ticket_data, decision, approved_by>>
      ]_vars

\* C5 witness: a submission without a valid decision was refused while the
\* process had no entry, and none was created
C5_Witness ==
    /\ request.op = "approval"
    /\ request.decision \in {"maybe", NoneV}
    /\ response.status = "form_invalid"
    /\ entry = NoEntry
    /\ pc = "dev_approval"

\* The fields of a role that the approval form of the role does not show
NotShown(r) ==
    {id \in Range(fields_filter(form, r)) :
        id \in hidden \/ FormField[id].label = "Description"}

\* C6: a stored non-empty value of a field not shown on the stage's form (a
\* hidden field, or a field labelled 'Description') is the same after a
\* successful approval submission at the field's stage as before it.
C6_NotShownValueKept ==
    [][ \A r \in ROLE_CHOICES :
          ApprovalDone(r) =>
            \A id \in NotShown(r) :
              (<<entry, id>> \in DOMAIN values
               /\ DisplayValue(values[<<entry, id>>]) # "") =>
                  /\ <<entry', id>> \in DOMAIN values'
                  /\ values'[<<entry', id>>] = values[<<entry, id>>]
      ]_vars

\* This step ran _update_entry_values_for_role for role r
WritesFor(r) ==
    /\ request'.role = r
    /\ \/ request'.op = "start" /\ pc = "start"
       \/ ApprovalDone(r)

\* C9: a stage submission writes only its own role's fields. After
\* _update_entry_values_for_role runs for role r, every stored value of a
\* field of another role is unchanged and no value row of such a field is
\* created.
C9_OnlyOwnRoleWritten ==
    [][ \A r \in ROLE_CHOICES :
          WritesFor(r) =>
            /\ \A p \in DOMAIN values' :
                 FormField[p[2]].role # r =>
                    p \in DOMAIN values /\ values'[p] = values[p]
            /\ \A p \in DOMAIN values :
                 FormField[p[2]].role # r =>
                    p \in DOMAIN values' /\ values'[p] = values[p]
      ]_vars

\* C9 witness: the dev stage has written its field while a value of the
\* user stage is stored
C9_Witness ==
    /\ request.op = "approval"
    /\ request.role = ROLE_DEV
    /\ response.status = "redirect"
    /\ \E p \in DOMAIN values :
          FormField[p[2]].role = ROLE_USER /\ values[p].value_text = "a"
    /\ \E p \in DOMAIN values :
          FormField[p[2]].role = ROLE_DEV /\ values[p].value_text = "True"

-----------------------------------------------------------------------------
(* The flow under fair scheduling of its pending task *)

\* The pending task of the process is eventually submitted and accepted:
\* the Start task while Start is active, and the approval task of the
\* active stage with one of the two buttons
Fairness ==
    /\ WF_vars(Start)
    /\ \A role \in ROLE_CHOICES : WF_vars(ApprovalAccepted(role))

SpecLive == Init /\ [][Next]_vars /\ Fairness

\* The decisions between a node and End when every decision is 'approved'
DecisionsLeft(node) ==
    CASE node \in {"start", "user_approval"} -> 4
      [] node = "dev_approval" -> 3
      [] node = "ba_approval" -> 2
      [] node = "pm_approval" -> 1
      [] node = "end" -> 0

\* A step that brings the process nearer to End: the Start submission, or an
\* accepted 'approved' decision that leaves one decision fewer
TowardsEnd ==
    \/ Start /\ pc' = "user_approval"
    \/ \E role \in ROLE_CHOICES :
         /\ ApprovalAccepted(role)
         /\ request'.decision = "approved"
         /\ DecisionsLeft(pc') = DecisionsLeft(pc) - 1

\* C11: the flow cannot get stuck, although rejections may loop it. In every
\* reachable state other than End a step towards End is possible, every
\* accepted 'approved' decision leaves exactly one decision fewer of the at
\* most four between the active node and End, and when from some point on no
\* submitted decision is 'rejected' the process, with its pending task
\* scheduled fairly, reaches End.
C11_NeverStuck ==
    /\ [](pc # "end" => ENABLED TowardsEnd)
    /\ [][ \A r \in ROLE_CHOICES :
             (ApprovalDone(r) /\ request'.decision = "approved") =>
                /\ DecisionsLeft(pc) <= 4
                /\ DecisionsLeft(pc') = DecisionsLeft(pc) - 1
       ]_vars
    /\ (<>[](request.decision # "rejected")) => <>(pc = "end")

\* C11 witness: pm has rejected, the approvals have resumed and with ba's
\* 'approved' one decision is left before End
C11_Witness ==
    /\ pc = "pm_approval"
    /\ decision[ROLE_PM] = "rejected"
    /\ request.op = "approval"
    /\ request.role = ROLE_BA
    /\ request.decision = "approved"

-----------------------------------------------------------------------------
(* admin.py: the export actions of FormEntryAdmin *)

\* slugify(form.name)
Slugify(name) ==
    CASE name = "Risk" -> "risk"
      [] name = "Audit" -> "audit"
      [] OTHER -> name

\* getattr(entry.submitted_by, "username", "") or ""
UsernameOf(submitted_by) == IF submitted_by = NoneV THEN "" ELSE submitted_by

\* v.value_text or (v.value_file.url if v.value_file else "")
ExportValue(v) ==
    Or(v.value_text, IF Truthy(v.value_file) THEN FileUrl(v.value_file) ELSE "")

\* queryset.order_by("-id")
RECURSIVE order_by_id_desc(_)
order_by_id_desc(S) ==
    IF S = {} THEN <<>>
    ELSE LET m == CHOOSE x \in S : \A y \in S : x >= y
         IN <<m>> \o order_by_id_desc(S \ {m})

\* queryset.order_by("id")
RECURSIVE order_by_id(_)
order_by_id(S) ==
    IF S = {} THEN <<>>
    ELSE LET m == CHOOSE x \in S : \A y \in S : x <= y
         IN <<m>> \o order_by_id(S \ {m})

NoForm == 0

ExportError ==
    [level |-> "ERROR",
     text |-> "Please filter to ONE Form first (use the right-side filter), then select entries to export."]

\* A validation that only refuses the empty selection
_ensure_some_form_or_error(ents, queryset) ==
    IF queryset = {}
    THEN [form |-> NoForm, messages |-> <<ExportError>>]
    ELSE [form |-> ents[CHOOSE e \in queryset : \A o \in queryset : e <= o].form,
          messages |-> <<>>]

\* _ensure_single_form_or_error: the form, or NoForm and the message sent to
\* the user
_ensure_single_form_or_error(ents, queryset) ==
    LET form_ids == {ents[e].form : e \in queryset}
    IN IF Cardinality(form_ids) # 1
       THEN [form |-> NoForm, messages |-> <<ExportError>>]
       ELSE [form |-> ents[CHOOSE e \in queryset : TRUE].form,
             messages |-> <<>>]

\* export_entries_csv: the response, whose body is the rows given to the
\* csv writer
export_entries_csv(ents, vals, queryset) ==
    LET checked == _ensure_single_form_or_error(ents, queryset)
        fields == fields_all(checked.form)
        header == <<"Entry ID", "Submitted by", "Submitted at">>
                  \o [i \in 1..Len(fields) |-> FormField[fields[i]].label]
        qs == order_by_id(queryset)
        values_map(e) ==
            [id \in {q[2] : q \in {p \in DOMAIN vals : p[1] = e}} |->
                ExportValue(vals[<<e, id>>])]
        row(e) == <<e, UsernameOf(ents[e].submitted_by),
                    Strftime(ents[e].submitted_at)>>
                  \o [i \in 1..Len(fields) |->
                         DictGet(values_map(e), fields[i], "")]
    IN IF checked.form = NoForm
       THEN [status |-> "none", email |-> "none", body |-> <<>>,
             content_type |-> NoneV, filename |-> NoneV,
             messages |-> checked.messages]
       ELSE [status |-> "file", email |-> "none",
             body |-> <<header>> \o [k \in 1..Len(qs) |-> row(qs[k])],
             content_type |-> "text/csv",
             filename |-> Slugify(Form[checked.form].name) \o "_entries.csv",
             messages |-> checked.messages]

\* export_entries_xlsx: the response, whose body is the rows appended to the
\* "Entries" sheet
export_entries_xlsx(ents, vals, queryset) ==
    LET checked == _ensure_single_form_or_error(ents, queryset)
        fields == fields_all(checked.form)
        header == <<"Entry ID", "Submitted by", "Submitted at">>
                  \o [i \in 1..Len(fields) |-> FormField[fields[i]].label]
        qs == order_by_id(queryset)
        values_map(e) ==
            [id \in {q[2] : q \in {p \in DOMAIN vals : p[1] = e}} |->
                ExportValue(vals[<<e, id>>])]
        row(e) == <<e, UsernameOf(ents[e].submitted_by),
                    Strftime(ents[e].submitted_at)>>
                  \o [i \in 1..Len(fields) |->
                         DictGet(values_map(e), fields[i], "")]
    IN IF checked.form = NoForm
       THEN [status |-> "none", email |-> "none", body |-> <<>>,
             content_type |-> NoneV, filename |-> NoneV,
             messages |-> checked.messages]
       ELSE [status |-> "file", email |-> "none",
             body |-> <<header>> \o [k \in 1..Len(qs) |-> row(qs[k])],
             content_type |->
                 "application/vnd.openxmlformats-officedocument.spreadsheetml.sheet",
             filename |-> Slugify(Form[checked.form].name) \o "_entries.xlsx",
             messages |-> checked.messages]

\* The value rows an entry of a form can have in the exported table
ExportProfiles == {"none", "all", "last", "blank"}

ProfileRow(id, profile) ==
    IF profile = "blank" THEN NewValueRow
    ELSE CASE FormField[id].field_type = FILE ->
                [value_text |-> "", value_file |-> "x.pdf"]
           [] FormField[id].field_type = CHECKBOX ->
                [value_text |-> "True", value_file |-> NoneV]
           [] FormField[id].field_type = NUMBER ->
                [value_text |-> "7", value_file |-> NoneV]
           [] OTHER -> [value_text |-> "a", value_file |-> NoneV]

ProfileFields(f, profile) ==
    LET fs == fields_all(f)
    IN CASE profile = "none" -> {}
         [] profile = "last" -> {fs[Len(fs)]}
         [] OTHER -> Range(fs)

ExportTimes ==
    <<[minute |-> "2024-05-01 10:00", second |-> 5],
      [minute |-> "2024-05-02 09:30", second |-> 40]>>

\* The process is not part of the export: its fields stay as created
IdleProcess ==
    /\ pc = "start"
    /\ form = 1
    /\ entry = NoEntry
    /\ ticket_data = EmptyDict
    /\ decision = [r \in ROLE_CHOICES |-> ""]
    /\ approved_by = [r \in ROLE_CHOICES |-> ""]
    /\ comment = [r \in ROLE_CHOICES |-> ""]
    /\ hidden = InitiallyHidden
    /\ admin_edits = 0
    /\ request = NoRequest
    /\ response = NoResponse

InitExport ==
    /\ IdleProcess
    /\ \E n \in 0..MaxExportEntries :
         /\ next_entry_id = n + 1
         /\ \E fm \in [1..n -> FormIds], sb \in [1..n -> {NoneV, "alice"}],
               pr \in [1..n -> ExportProfiles] :
              /\ entries = [e \in 1..n |->
                              [form |-> fm[e], submitted_by |-> sb[e],
                               submitted_at |-> ExportTimes[1 + (e % 2)]]]
              /\ values = [p \in {<<e, id>> \in (1..n) \X FieldIds :
                                     id \in ProfileFields(fm[e], pr[e])} |->
                              ProfileRow(p[2], pr[p[1]])]

\* The administrator runs "Export selected entries to CSV" on a selection
ExportCsv ==
    /\ \E queryset \in SUBSET DOMAIN entries :
         /\ request' = [NoRequest EXCEPT !.op = "export_csv",
                                         !.cleaned_data = queryset]
         /\ response' = export_entries_csv(entries, values, queryset)
    /\ UNCHANGED <<pc, form, entry, next_entry_id, entries, values,
                   ticket_data, decision, approved_by, comment, hidden,
                   admin_edits>>

\* The administrator runs "Export selected entries to XLSX" on a selection
ExportXlsx ==
    /\ \E queryset \in SUBSET DOMAIN entries :
         /\ request' = [NoRequest EXCEPT !.op = "export_xlsx",
                                         !.cleaned_data = queryset]
         /\ response' = export_entries_xlsx(entries, values, queryset)
    /\ UNCHANGED <<pc, form, entry, next_entry_id, entries, values,
                   ticket_data, decision, approved_by, comment, hidden,
                   admin_edits>>

NextExport == ExportCsv \/ ExportXlsx

SpecExport == InitExport /\ [][NextExport]_vars

\* The entries selected by the export request being answered
Selected == request.cleaned_data

IsExport == request.op \in {"export_csv", "export_xlsx"}

SelectedForms == {entries[e].form : e \in Selected}

\* C7: the CSV and XLSX export actions produce a file only when the selected
\* entries all belong to exactly one form; when the selection spans zero
\* forms or more than one, the action reports an error message and returns
\* no file.
C7_ExportNeedsSingleForm ==
    IsExport =>
        /\ response.status = "file" <=> Cardinality(SelectedForms) = 1
        /\ Cardinality(SelectedForms) # 1 =>
              /\ response.status = "none"
              /\ response.body = <<>>
              /\ Len(response.messages) = 1
              /\ response.messages[1].level = "ERROR"
        /\ Cardinality(SelectedForms) = 1 => response.messages = <<>>

\* C7 witness: an export of entries of two forms was refused
C7_Witness ==
    /\ IsExport
    /\ Cardinality(SelectedForms) = 2
    /\ response.status = "none"

\* C7 witness: an export of entries of one form produced a file
C7_WitnessFile ==
    /\ request.op = "export_xlsx"
    /\ Cardinality(Selected) = 2
    /\ Cardinality(SelectedForms) = 1
    /\ response.status = "file"

\* The fields of a form, and the position of each among them in (order, id)
\* order
FieldsOfForm(f) == {id \in FieldIds : FormField[id].form = f}

Rank(id) ==
    1 + Cardinality({o \in FieldsOfForm(FormField[id].form) :
                        OrderedBefore(o, id)})

\* C8: for a single-form selection both exports produce the same table: the
\* header 'Entry ID', 'Submitted by', 'Submitted at' and the form's field
\* labels in (order, id) order, then one row per selected entry in ascending
\* entry id, each of 3 + (number of form fields) cells, in which the cell of
\* a field with no stored value is the empty string.
C8_ExportTable ==
    (IsExport /\ Cardinality(SelectedForms) = 1) =>
        LET f == CHOOSE x \in SelectedForms : TRUE
            n == Cardinality(FieldsOfForm(f))
            t == response.body
        IN /\ Len(t) = 1 + Cardinality(Selected)
           /\ Len(t[1]) = 3 + n
           /\ SubSeq(t[1], 1, 3) = <<"Entry ID", "Submitted by", "Submitted at">>
           /\ \A id \in FieldsOfForm(f) : t[1][3 + Rank(id)] = FormField[id].label
           /\ \A k \in 2..Len(t) :
                /\ Len(t[k]) = 3 + n
                /\ t[k][1] \in Selected
                /\ Cardinality({e \in Selected : e < t[k][1]}) = k - 2
                /\ \A id \in FieldsOfForm(f) :
                     t[k][3 + Rank(id)] =
                        IF <<t[k][1], id>> \in DOMAIN values
                        THEN ExportValue(values[<<t[k][1], id>>])
                        ELSE ""

\* C8 witness: an XLSX export of two entries of one form, one of them
\* without a value for a field of the form
C8_Witness ==
    /\ request.op = "export_xlsx"
    /\ Cardinality(Selected) = 2
    /\ Cardinality(SelectedForms) = 1
    /\ response.status = "file"
    /\ \E e \in Selected : \E id \in FieldsOfForm(entries[e].form) :
          <<e, id>> \notin DOMAIN values
    /\ \E e \in Selected : \E id \in FieldsOfForm(entries[e].form) :
          <<e, id>> \in DOMAIN values /\ values[<<e, id>>].value_file # NoneV

\* C8 witness: a CSV export of the same kind
C8_WitnessCsv ==
    /\ request.op = "export_csv"
    /\ Cardinality(Selected) = 2
    /\ Cardinality(SelectedForms) = 1
    /\ response.status = "file"
    /\ \E e \in Selected : \E id \in FieldsOfForm(entries[e].form) :
          <<e, id>> \notin DOMAIN values

-----------------------------------------------------------------------------
(* forms.py: add_fields_to_form on its own *)

InitialValues == {"", "a", "True"}

\* The initial_map arguments: at most MaxInitialKeys keys of the form's fields
InitialMaps(f) ==
    UNION {[{Key(id) : id \in K} -> InitialValues] :
             K \in {S \in SUBSET FieldsOfForm(f) : Cardinality(S) <= MaxInitialKeys}}

\* The arguments of a call are held in request.cleaned_data
InitForm ==
    /\ pc = "start"
    /\ form = 1
    /\ entry = NoEntry
    /\ next_entry_id = 1
    /\ entries = [e \in {} |-> 0]
    /\ values = [p \in {} |-> NewValueRow]
    /\ ticket_data = EmptyDict
    /\ decision = [r \in ROLE_CHOICES |-> ""]
    /\ approved_by = [r \in ROLE_CHOICES |-> ""]
    /\ comment = [r \in ROLE_CHOICES |-> ""]
    /\ hidden = InitiallyHidden
    /\ admin_edits = 0
    /\ response = NoResponse
    /\ \E f \in FormIds, rc \in {NoneV, ROLE_DEV},
          r \in {NoneV, ""} \cup ROLE_CHOICES,
          ex \in SUBSET {"Description", "Title"} :
         \E im \in InitialMaps(f) :
            request = [NoRequest EXCEPT
                          !.op = "build",
                          !.cleaned_data =
                              [form_obj |-> f, role_code |-> rc, role |-> r,
                               initial_map |-> im, exclude_labels |-> ex]]

\* A view builds its form: add_fields_to_form is applied to the arguments
BuildForm ==
    /\ request.op = "build"
    /\ response.status = "none"
    /\ LET a == request.cleaned_data
       IN response' = [status |-> "form", email |-> "none",
                       body |-> add_fields_to_form(a.form_obj, a.role_code,
                                                   a.role, a.initial_map,
                                                   a.exclude_labels)]
    /\ UNCHANGED <<pc, form, entry, next_entry_id, entries, values,
                   ticket_data, decision, approved_by, comment, hidden,
                   admin_edits, request>>

NextForm == BuildForm

SpecForm == InitForm /\ [][NextForm]_vars

\* The role a call filters by: role_code when passed, else role
GivenRole(a) == IF a.role_code # NoneV THEN a.role_code ELSE a.role

\* The fields a call is to add: of the given role (of all roles when none is
\* given), not hidden, with a label outside exclude_labels
Wanted(a) ==
    {id \in FieldsOfForm(a.form_obj) :
        /\ GivenRole(a) \in {NoneV, ""} \/ FormField[id].role = GivenRole(a)
        /\ id \notin hidden
        /\ FormField[id].label \notin a.exclude_labels}

\* The initial_map entry of the field when present, otherwise default_value
StatedInitial(a, id) ==
    IF Key(id) \in DOMAIN a.initial_map
    THEN a.initial_map[Key(id)]
    ELSE FormField[id].default_value

\* C10 as stated: add_fields_to_form adds exactly the wanted fields, keyed by
\* the field id, and each added field's initial value is the initial_map
\* entry of its key when present, otherwise the field's default_value.
C10_AsStated ==
    response.status = "form" =>
        LET a == request.cleaned_data
        IN /\ DOMAIN response.body = {Key(id) : id \in Wanted(a)}
           /\ \A id \in Wanted(a) :
                /\ response.body[Key(id)].id = id
                /\ response.body[Key(id)].initial = StatedInitial(a, id)

\* C10, amended: add_fields_to_form adds exactly the wanted fields, keyed by
\* the field id. The initial value of an added field is the initial_map entry
\* of its key when present, otherwise the field's default_value, or None
\* when that is empty; a checkbox field's initial value is instead the
\* boolean saying whether that value is one of 'True', 'true', '1', True, 1.
C10_AddFields ==
    response.status = "form" =>
        LET a == request.cleaned_data
            base(id) == IF Key(id) \in DOMAIN a.initial_map
                        THEN a.initial_map[Key(id)]
                        ELSE IF FormField[id].default_value = ""
                             THEN NoneV
                             ELSE FormField[id].default_value
        IN /\ DOMAIN response.body = {Key(id) : id \in Wanted(a)}
           /\ \A id \in Wanted(a) :
                /\ response.body[Key(id)].id = id
                /\ response.body[Key(id)].label = FormField[id].label
                /\ response.body[Key(id)].initial =
                     IF FormField[id].field_type = CHECKBOX
                     THEN (IF base(id) \in {"True", "true", "1", PyTrue}
                           THEN PyTrue ELSE PyFalse)
                     ELSE base(id)

\* C10 witness: a form was built for one role with a label excluded, a
\* field took its initial value from initial_map and another field of the
\* form was left out
C10_Witness ==
    /\ response.status = "form"
    /\ request.cleaned_data.role = ROLE_USER
    /\ request.cleaned_data.exclude_labels = {"Description"}
    /\ \E k \in DOMAIN response.body :
          /\ k \in DOMAIN request.cleaned_data.initial_map
          /\ response.body[k].initial = "a"
    /\ \E id \in FieldsOfForm(request.cleaned_data.form_obj) :
          Key(id) \notin DOMAIN response.body

\* C10 witness: a form of all roles was built, the hidden field left out and
\* the checkbox field given a boolean initial value
C10_WitnessAllRoles ==
    /\ response.status = "form"
    /\ GivenRole(request.cleaned_data) = NoneV
    /\ Cardinality(DOMAIN response.body) = 3
    /\ \E k \in DOMAIN response.body :
          response.body[k].field_type = CHECKBOX
          /\ response.body[k].initial = PyTrue

====
